---- MODULE Spec2Model ----
(***************************************************************************)
(* Model of weather_server.py: two tools (get_alerts, get_forecast) and    *)
(* their two resource adapters over the NWS HTTP API.                      *)
(*                                                                         *)
(* Python values are tagged records: JSON null / None is Null, a JSON      *)
(* string is Str(s) (one line, s a TLA+ string), a number is Num(n), an    *)
(* object is Obj(f) with f a function from its keys, an array is Arr(seq). *)
(* A string built by the program is Text(lines), the sequence of its lines *)
(* (the string split at "\n").  Exc stands for a raised exception.         *)
(***************************************************************************)
EXTENDS Integers, Sequences, FiniteSets, TLC

VARIABLES pc, req, frame, fetched, resps, inflight, result, diag

vars == <<pc, req, frame, fetched, resps, inflight, result, diag>>

---------------------------------------------------------------------------
(* Bounds of the model *)

\* number of invocations the server handles in one behaviour
NumInv == 3
\* longest features / periods array of an upstream body
MaxItems == 2

---------------------------------------------------------------------------
(* Python values *)

Null == [t |-> "null"]
Exc == [t |-> "exc"]
Str(s) == [t |-> "str", v |-> s]
Num(n) == [t |-> "num", v |-> n]
Obj(f) == [t |-> "obj", v |-> f]
Arr(s) == [t |-> "arr", v |-> s]
Text(ls) == [t |-> "text", v |-> ls]

EmptyObj == Obj(<<>>)
EmptyArr == Arr(<<>>)

\* Python truthiness, as `not x` tests it
Truthy(x) ==
    CASE x.t = "null" -> FALSE
      [] x.t = "str" -> x.v # ""
      [] x.t = "num" -> x.v # 0
      [] x.t = "obj" -> DOMAIN x.v # {}
      [] x.t = "arr" -> x.v # <<>>
      [] x.t = "text" -> x.v # <<"">>

\* x.get(k, d): only a dict has .get; anything else raises AttributeError
py_get(x, k, d) ==
    IF x.t # "obj" THEN Exc
    ELSE IF k \in DOMAIN x.v THEN x.v[k] ELSE d

DigitChar == <<"0", "1", "2", "3", "4", "5", "6", "7", "8", "9">>

RECURSIVE Digits(_)
\* decimal digits of a natural number
Digits(n) ==
    IF n < 10 THEN DigitChar[n + 1]
    ELSE Digits(n \div 10) \o DigitChar[(n % 10) + 1]

\* str(x) as an f-string field renders it
py_str(x) ==
    CASE x.t = "str" -> x.v
      [] x.t = "null" -> "None"
      [] x.t = "num" -> IF x.v < 0 THEN "-" \o Digits(-x.v) ELSE Digits(x.v)

RECURSIVE Flatten(_)
\* the lines of the strings of ts, one string after the other
Flatten(ts) ==
    IF ts = <<>> THEN <<>> ELSE Head(ts).v \o Flatten(Tail(ts))

\* "\n".join(l) for a list l of strings
join_nl(l) ==
    IF l.v = <<>> THEN Text(<<"">>) ELSE Text(Flatten(l.v))

\* a + b on strings: the last line of a continues with the first line of b
str_add(a, b) ==
    Text(SubSeq(a.v, 1, Len(a.v) - 1)
         \o <<a.v[Len(a.v)] \o b.v[1]>>
         \o Tail(b.v))

\* one line of text
Line(s) == Text(<<s>>)

---------------------------------------------------------------------------
(* Constants of the program *)

NWS_API_BASE == "https://api.weather.gov"

---------------------------------------------------------------------------
(* str.upper on a region code, held as a sequence of characters *)

UpperOf ==
    [c \in {"a", "c", "n", "y", "A", "C", "N", "Y", "1"} |->
        CASE c = "a" -> "A"
          [] c = "c" -> "C"
          [] c = "n" -> "N"
          [] c = "y" -> "Y"
          [] OTHER -> c]

RECURSIVE Chars(_)
\* the characters of a code written out as given
Chars(cs) ==
    IF cs = <<>> THEN "" ELSE Head(cs) \o Chars(Tail(cs))

\* a get_alerts that forgets .upper()
upper_forgotten(cs) == Chars(cs)

RECURSIVE upper(_)
\* state.upper(), as a string
upper(cs) ==
    IF cs = <<>> THEN "" ELSE UpperOf[Head(cs)] \o upper(Tail(cs))

---------------------------------------------------------------------------
(* Floats: a coordinate is held as an integer count of 0.00001 degrees     *)

RECURSIVE PadN(_, _)
\* the last n decimal digits of f, leading zeros kept
PadN(f, n) ==
    IF n = 0 THEN "" ELSE PadN(f \div 10, n - 1) \o DigitChar[(f % 10) + 1]

RECURSIVE Frac(_, _)
\* the n-digit fraction f without its trailing zeros (one digit at least)
Frac(f, n) ==
    IF f % 10 = 0 /\ n > 1 THEN Frac(f \div 10, n - 1) ELSE PadN(f, n)

Abs(x) == IF x < 0 THEN -x ELSE x

SignOf(x) == IF x < 0 THEN "-" ELSE ""

\* f"{x:.4f}" of a float: rounded to four decimals, the sign kept.  A last
\* digit of 5 is no tie in binary and is not among the model's inputs.
float_4f(x) ==
    LET q == Abs(x) \div 10
        r == Abs(x) % 10
        n == CASE r < 5 -> q
               [] r > 5 -> q + 1
    IN  SignOf(x) \o Digits(n \div 10000) \o "." \o PadN(n % 10000, 4)

\* a message that echoes the coordinate in the form of the URL
float_str_rounded(x) == float_4f(x)

\* f"{x}" of a float: the shortest repr, scientific below 0.0001
float_str(x) ==
    IF x = 0 THEN "0.0"
    ELSE IF Abs(x) < 10 THEN SignOf(x) \o Digits(Abs(x)) \o "e-05"
    ELSE SignOf(x) \o Digits(Abs(x) \div 100000) \o "."
             \o Frac(Abs(x) % 100000, 5)

---------------------------------------------------------------------------
(* make_nws_request: what the helper returns for a response of the API    *)

\* the request raises inside the try block: the client rejects a URL that
\* is no string, the transport fails, raise_for_status() or json() raises
request_raises(url, resp) ==
    url.t # "str" \/ resp.kind # "ok"

\* a helper whose client is shared and stays broken after the first error
make_nws_request_shared(url, resp) ==
    IF diag > 0 \/ request_raises(url, resp) THEN Null ELSE resp.body

make_nws_request(url, resp) ==
    IF request_raises(url, resp) THEN Null ELSE resp.body

---------------------------------------------------------------------------
(* format_alert and the period formatting of get_forecast                  *)

\* the six lines of an alert, props being its properties
alert_lines(props) ==
    IF props.t # "obj" THEN Exc
    ELSE join_nl(Arr(<<
        Line("Event: " \o py_str(py_get(props, "event", Str("Unknown")))),
        Line("Area: " \o py_str(py_get(props, "areaDesc", Str("Unknown")))),
        Line("Severity: " \o py_str(py_get(props, "severity", Str("Unknown")))),
        Line("Status: " \o py_str(py_get(props, "status", Str("Unknown")))),
        Line("Headline: " \o py_str(py_get(props, "headline", Str("No headline")))),
        Line("---") >>))

\* a formatter that reads feature["properties"]: KeyError when it is absent
format_alert_strict(feature) ==
    IF feature.t = "obj" /\ "properties" \in DOMAIN feature.v
    THEN alert_lines(feature.v["properties"])
    ELSE Exc

format_alert(feature) ==
    alert_lines(py_get(feature, "properties", EmptyObj))

format_period(period) ==
    IF period.t # "obj" THEN Exc
    ELSE join_nl(Arr(<<
        Line(py_str(py_get(period, "name", Str("Unknown"))) \o ":"),
        Line("Temperature: "
             \o py_str(py_get(period, "temperature", Str("Unknown")))
             \o "°" \o py_str(py_get(period, "temperatureUnit", Str("F")))),
        Line("Wind: " \o py_str(py_get(period, "windSpeed", Str("Unknown")))
             \o " " \o py_str(py_get(period, "windDirection", Str("")))),
        Line(py_str(py_get(period, "shortForecast", Str("No forecast available")))),
        Line("---") >>))

RECURSIVE format_each_reversed(_, _)
\* a loop that puts each block in front of the ones before it
format_each_reversed(xs, alert) ==
    IF xs = <<>> THEN EmptyArr
    ELSE LET h == IF alert THEN format_alert(Head(xs)) ELSE format_period(Head(xs))
             r == format_each_reversed(Tail(xs), alert)
         IN  IF h = Exc \/ r = Exc THEN Exc ELSE Arr(r.v \o <<h>>)

RECURSIVE format_each(_, _)
\* the list [format(x) for x in xs]; Exc as soon as one call raises
format_each(xs, alert) ==
    IF xs = <<>> THEN EmptyArr
    ELSE LET h == IF alert THEN format_alert(Head(xs)) ELSE format_period(Head(xs))
             r == format_each(Tail(xs), alert)
         IN  IF h = Exc \/ r = Exc THEN Exc ELSE Arr(<<h>> \o r.v)

---------------------------------------------------------------------------
(* The tools, from one await to the next                                   *)

alerts_url(state_code) ==
    Str(NWS_API_BASE \o "/alerts?area=" \o state_code)

points_url(latitude, longitude) ==
    Str(NWS_API_BASE \o "/points/" \o float_4f(latitude) \o ","
        \o float_4f(longitude))

\* get_alerts after its fetch: the string it returns, or Exc
get_alerts_return(state_code, alerts_data) ==
    IF ~Truthy(alerts_data) THEN Line("Failed to retrieve alerts data")
    ELSE LET features == py_get(alerts_data, "features", EmptyArr)
         IN  IF features = Exc THEN Exc
             ELSE IF ~Truthy(features)
                  THEN Line("No active alerts for " \o state_code)
             \* iterating a string, a dict or a number yields no dict:
             \* feature.get raises (or the iteration itself does)
             ELSE IF features.t # "arr" THEN Exc
             ELSE LET formatted_alerts == format_each(features.v, TRUE)
                  IN  IF formatted_alerts = Exc THEN Exc
                      ELSE str_add(Text(<<"Active alerts for " \o state_code \o ":",
                                          "", "">>),
                                   join_nl(formatted_alerts))

\* the coroutine goes on to await make_nws_request(url)
Await(url) == [t |-> "await", v |-> url]

\* get_forecast after the grid point fetch: the string it returns, Exc, or
\* Await(forecast_url) when it goes on to the second fetch

get_forecast_url(points_data) ==
    LET properties == py_get(points_data, "properties", EmptyObj)
        forecast_url == IF properties = Exc THEN Exc
                        ELSE py_get(properties, "forecast", Null)
    IN  IF forecast_url = Exc THEN Exc
        ELSE IF ~Truthy(forecast_url)
             THEN Line("Failed to get forecast URL from grid point data")
        ELSE Await(forecast_url)

\* a get_forecast that asks for the grid point again when the fetch failed
get_forecast_points_retry(latitude, longitude, points_data) ==
    IF ~Truthy(points_data) THEN Await(points_url(latitude, longitude))
    ELSE get_forecast_url(points_data)

get_forecast_points(latitude, longitude, points_data) ==
    IF ~Truthy(points_data)
    THEN Line("Failed to retrieve grid point data for coordinates: "
              \o float_str(latitude) \o ", " \o float_str(longitude)
              \o ". This location may not be supported by the NWS API (only US locations are supported).")
    ELSE get_forecast_url(points_data)

\* get_forecast after the forecast fetch: the string it returns, or Exc
get_forecast_return(latitude, longitude, forecast_data) ==
    IF ~Truthy(forecast_data) THEN Line("Failed to retrieve forecast data")
    ELSE LET properties == py_get(forecast_data, "properties", EmptyObj)
             periods == IF properties = Exc THEN Exc
                        ELSE py_get(properties, "periods", EmptyArr)
         IN  IF periods = Exc THEN Exc
             ELSE IF ~Truthy(periods) THEN Line("No forecast periods available")
             ELSE IF periods.t # "arr" THEN Exc
             ELSE LET formatted_forecast == format_each(periods.v, FALSE)
                  IN  IF formatted_forecast = Exc THEN Exc
                      ELSE str_add(Text(<<"Forecast for " \o float_str(latitude)
                                          \o ", " \o float_str(longitude) \o ":",
                                          "", "">>),
                                   join_nl(formatted_forecast))

---------------------------------------------------------------------------
(* What the callers pass and what the API answers                          *)

Invocations == 1 .. NumInv

\* region codes, as characters
StateInputs == {<<"c", "a">>, <<"C", "A">>, <<"n", "y">>}

\* coordinates, in units of 0.00001 degrees
LatitudeInputs == {0, 1230000, 3812346, -4}
LongitudeInputs == {-7700004, 12241941}

\* a response of the API: the transport failed, raise_for_status() raised,
\* json() raised, or json() gave body
Failed(k) == [kind |-> k, body |-> Null]
Ok(b) == [kind |-> "ok", body |-> b]
Failures == {Failed("transport"), Failed("status"), Failed("parse")}

\* the sequences over S of length 1 .. n
SeqsUpTo(S, n) == UNION {[1 .. k -> S] : k \in 1 .. n}

\* f without its key k
Without(f, k) == [x \in DOMAIN f \ {k} |-> f[x]]

FullAlert ==
    [event |-> Str("Flood Warning"), areaDesc |-> Str("Yolo County"),
     severity |-> Str("Severe"), status |-> Str("Actual"),
     headline |-> Str("Flood Warning issued")]

Features ==
    {Obj("properties" :> Obj(FullAlert))}
    \cup {Obj("properties" :> Obj(Without(FullAlert, k))) : k \in DOMAIN FullAlert}
    \cup {EmptyObj, Obj("properties" :> EmptyObj),
          Obj("properties" :> Obj([FullAlert EXCEPT !.severity = Null])),
          Obj("properties" :> Null), Str("x")}

FullPeriod ==
    [name |-> Str("Tonight"), temperature |-> Num(40),
     temperatureUnit |-> Str("C"), windSpeed |-> Str("5 mph"),
     windDirection |-> Str("N"), shortForecast |-> Str("Clear")]

Periods ==
    {Obj(FullPeriod)}
    \cup {Obj(Without(FullPeriod, k)) : k \in DOMAIN FullPeriod}
    \cup {EmptyObj, Obj([FullPeriod EXCEPT !.temperature = Null]), Str("x")}

\* bodies that are no usable JSON object
OddBodies == {Null, EmptyObj, Arr(<<Num(1)>>), Obj("properties" :> Null)}

AlertBodies ==
    OddBodies
    \cup {Obj("type" :> Str("FeatureCollection")),
          Obj("features" :> Null), Obj("features" :> EmptyArr),
          Obj("features" :> Str("x"))}
    \cup {Obj("features" :> Arr(fs)) : fs \in SeqsUpTo(Features, MaxItems)}

ForecastUrl1 == Str("https://api.weather.gov/gridpoints/STO/1,2/forecast")
ForecastUrl2 == Str("https://api.weather.gov/gridpoints/LWX/3,4/forecast")

GridBodies ==
    OddBodies
    \cup {Obj("id" :> Str("p")), Obj("properties" :> EmptyObj)}
    \cup {Obj("properties" :> Obj("forecast" :> u)) :
            u \in {Null, Str(""), ForecastUrl1, ForecastUrl2, Num(5)}}

ForecastBodies ==
    OddBodies
    \cup {Obj("type" :> Str("Feature")), Obj("properties" :> EmptyObj),
          Obj("properties" :> Obj("periods" :> Null)),
          Obj("properties" :> Obj("periods" :> EmptyArr)),
          Obj("properties" :> Obj("periods" :> Str("x")))}
    \cup {Obj("properties" :> Obj("periods" :> Arr(ps))) :
            ps \in SeqsUpTo(Periods, MaxItems)}

\* everything one invocation can meet
World ==
    [states |-> StateInputs, lats |-> LatitudeInputs, lons |-> LongitudeInputs,
     alerts |-> Failures \cup {Ok(b) : b \in AlertBodies},
     points |-> Failures \cup {Ok(b) : b \in GridBodies},
     forecasts |-> Failures \cup {Ok(b) : b \in ForecastBodies}]

\* the few answers that invocations running side by side are checked with
SmallWorld ==
    [states |-> {<<"c", "a">>}, lats |-> {1230000}, lons |-> {-7700004},
     alerts |-> {Failed("transport"),
                 Ok(Obj("features" :> EmptyArr)),
                 Ok(Obj("features" :> Arr(<<Obj("properties" :> Obj(FullAlert))>>)))},
     points |-> {Failed("status"),
                 Ok(Obj("properties" :> EmptyObj)),
                 Ok(Obj("properties" :> Obj("forecast" :> ForecastUrl1)))},
     forecasts |-> {Failed("transport"),
                    Ok(Obj("properties" :> Obj("periods" :> EmptyArr))),
                    Ok(Obj("properties" :> Obj("periods" :> Arr(<<Obj(FullPeriod)>>))))}]

\* region codes in both letter cases against a few answers
CaseWorld ==
    [SmallWorld EXCEPT
        !.states = StateInputs,
        !.alerts = @ \cup {Failed("parse"), Ok(EmptyObj),
                           Ok(Obj("features" :> Arr(<<EmptyObj, Obj("properties" :> Obj(FullAlert))>>)))}]

---------------------------------------------------------------------------
(* State: pc[i] is where invocation i stands, req[i] the entry point and    *)
(* arguments of the call, frame[i] the parameters and locals of the tool,   *)
(* fetched[i] the URLs it has requested, resps[i] the responses it got,     *)
(* inflight[i] its requests without a response yet, result[i] the string    *)
(* returned to the caller, diag the lines printed to the diagnostic stream. *)

NoReq == [entry |-> "none", args |-> <<>>]
NoFrame == [fn |-> "none", state_code |-> "", latitude |-> 0, longitude |-> 0]

Init ==
    /\ pc = [i \in Invocations |-> "idle"]
    /\ req = [i \in Invocations |-> NoReq]
    /\ frame = [i \in Invocations |-> NoFrame]
    /\ fetched = [i \in Invocations |-> <<>>]
    /\ resps = [i \in Invocations |-> <<>>]
    /\ inflight = [i \in Invocations |-> 0]
    /\ result = [i \in Invocations |-> Null]
    /\ diag = 0

\* the host starts invocation i, the next one to arrive
Arrive(i, entry, args) ==
    /\ pc[i] = "idle"
    /\ IF i = 1 THEN TRUE ELSE pc[i - 1] # "idle"
    /\ req' = [req EXCEPT ![i] = [entry |-> entry, args |-> args]]

\* await make_nws_request(url): the request goes out
Fetch(i, url, at) ==
    /\ fetched' = [fetched EXCEPT ![i] = Append(@, url)]
    /\ inflight' = [inflight EXCEPT ![i] = @ + 1]
    /\ pc' = [pc EXCEPT ![i] = at]

\* make_nws_request comes back: the response is consumed, a failure printed
Fetched(i, resp) ==
    /\ resps' = [resps EXCEPT ![i] = Append(@, resp)]
    /\ diag' = IF request_raises(fetched[i][Len(fetched[i])], resp)
               THEN diag + 1 ELSE diag

\* the invocation ends: the string goes to the caller, or the exception does
Finish(i, out) ==
    /\ inflight' = [inflight EXCEPT ![i] = @ - 1]
    /\ IF out = Exc
       THEN pc' = [pc EXCEPT ![i] = "raised"] /\ UNCHANGED result
       ELSE pc' = [pc EXCEPT ![i] = "returned"]
            /\ result' = [result EXCEPT ![i] = out]

get_alerts(i, state) ==
    /\ frame' = [frame EXCEPT ![i] =
                    [fn |-> "get_alerts", state_code |-> upper(state),
                     latitude |-> 0, longitude |-> 0]]
    /\ Fetch(i, alerts_url(upper(state)), "await1")
    /\ UNCHANGED <<resps, result, diag>>

get_alerts_resume(i, resp) ==
    LET alerts_data == make_nws_request(fetched[i][1], resp)
    IN  /\ Fetched(i, resp)
        /\ Finish(i, get_alerts_return(frame[i].state_code, alerts_data))
        /\ UNCHANGED <<req, frame, fetched>>

get_forecast(i, latitude, longitude) ==
    /\ frame' = [frame EXCEPT ![i] =
                    [fn |-> "get_forecast", state_code |-> "",
                     latitude |-> latitude, longitude |-> longitude]]
    /\ Fetch(i, points_url(latitude, longitude), "await1")
    /\ UNCHANGED <<resps, result, diag>>

get_forecast_resume1(i, resp) ==
    LET points_data == make_nws_request(fetched[i][1], resp)
        out == get_forecast_points(frame[i].latitude, frame[i].longitude,
                                   points_data)
    IN  /\ Fetched(i, resp)
        /\ IF out.t = "await"
           THEN /\ fetched' = [fetched EXCEPT ![i] = Append(@, out.v)]
                /\ pc' = [pc EXCEPT ![i] = "await2"]
                /\ UNCHANGED <<inflight, result>>
           ELSE Finish(i, out) /\ UNCHANGED fetched
        /\ UNCHANGED <<req, frame>>

get_forecast_resume2(i, resp) ==
    LET forecast_data == make_nws_request(fetched[i][2], resp)
    IN  /\ Fetched(i, resp)
        /\ Finish(i, get_forecast_return(frame[i].latitude, frame[i].longitude,
                                         forecast_data))
        /\ UNCHANGED <<req, frame, fetched>>

alerts_resource(i, state) == get_alerts(i, state)

\* an adapter that hands its two path parameters over in the wrong order
forecast_resource_swapped(i, latitude, longitude) ==
    get_forecast(i, longitude, latitude)

forecast_resource(i, latitude, longitude) ==
    get_forecast(i, latitude, longitude)

---------------------------------------------------------------------------
(* Actions: W is the world the invocation runs in                          *)

CallGetAlerts(i, W) ==
    \E s \in W.states : Arrive(i, "get_alerts", <<s>>) /\ get_alerts(i, s)

CallAlertsResource(i, W) ==
    \E s \in W.states : Arrive(i, "alerts_resource", <<s>>) /\ alerts_resource(i, s)

CallGetForecast(i, W) ==
    \E la \in W.lats, lo \in W.lons :
        Arrive(i, "get_forecast", <<la, lo>>) /\ get_forecast(i, la, lo)

CallForecastResource(i, W) ==
    \E la \in W.lats, lo \in W.lons :
        Arrive(i, "forecast_resource", <<la, lo>>) /\ forecast_resource(i, la, lo)

AlertsResponse(i, W) ==
    /\ pc[i] = "await1"
    /\ frame[i].fn = "get_alerts"
    /\ \E resp \in W.alerts : get_alerts_resume(i, resp)

PointsResponse(i, W) ==
    /\ pc[i] = "await1"
    /\ frame[i].fn = "get_forecast"
    /\ \E resp \in W.points : get_forecast_resume1(i, resp)

\* a forecast URL that is no string never reaches the API: the client raises
ForecastResponse(i, W) ==
    /\ pc[i] = "await2"
    /\ \E resp \in (IF fetched[i][2].t = "str" THEN W.forecasts
                    ELSE {Failed("transport")}) :
          get_forecast_resume2(i, resp)

Step(i, W) ==
    \/ CallGetAlerts(i, W)
    \/ CallAlertsResource(i, W)
    \/ CallGetForecast(i, W)
    \/ CallForecastResource(i, W)
    \/ AlertsResponse(i, W)
    \/ PointsResponse(i, W)
    \/ ForecastResponse(i, W)

\* one invocation against everything the API can answer
Next == Step(1, World)

Spec == Init /\ [][Next]_vars

\* NumInv invocations side by side
NextConc == \E i \in Invocations : Step(i, SmallWorld)

SpecConc == Init /\ [][NextConc]_vars

\* two invocations side by side, region codes in both letter cases
NextCase == \E i \in {1, 2} : Step(i, CaseWorld)

SpecCase == Init /\ [][NextCase]_vars

---------------------------------------------------------------------------
(* What the claims speak of                                                *)

Done(i) == pc[i] \in {"returned", "raised"}

IsAlerts(i) == pc[i] # "idle" /\ frame[i].fn = "get_alerts"

IsForecast(i) == pc[i] # "idle" /\ frame[i].fn = "get_forecast"

\* the k-th fetch of invocation i came back with a parsed body
FetchOk(i, k) == Len(resps[i]) >= k /\ resps[i][k].kind = "ok"

\* the k-th fetch of invocation i came back as the failure signal
FetchFailed(i, k) == Len(resps[i]) >= k /\ resps[i][k].kind # "ok"

Has(x, k) == x.t = "obj" /\ k \in DOMAIN x.v

\* an alert record: an object whose properties are absent or an object
AlertRecord(f) ==
    f.t = "obj" /\ (Has(f, "properties") => f.v["properties"].t = "obj")

\* a forecast period record: an object
PeriodRecord(p) == p.t = "obj"

\* body carries a features list of n >= 1 alert records
FeatureList(body) ==
    /\ Has(body, "features")
    /\ body.v["features"].t = "arr"
    /\ body.v["features"].v # <<>>
    /\ \A k \in DOMAIN body.v["features"].v : AlertRecord(body.v["features"].v[k])

\* body carries a periods list of n >= 1 period records
PeriodList(body) ==
    /\ Has(body, "properties")
    /\ Has(body.v["properties"], "periods")
    /\ body.v["properties"].v["periods"].t = "arr"
    /\ body.v["properties"].v["periods"].v # <<>>
    /\ \A k \in DOMAIN body.v["properties"].v["periods"].v :
          PeriodRecord(body.v["properties"].v["periods"].v[k])

\* the uppercased form of each region code of the model, written out
Uppercased ==
    (<<"c", "a">> :> "CA") @@ (<<"C", "A">> :> "CA") @@ (<<"n", "y">> :> "NY")

\* each coordinate of the model as the caller gives it
AsGiven ==
    (0 :> "0.0") @@ (1230000 :> "12.3") @@ (3812346 :> "38.12346")
    @@ (-4 :> "-4e-05") @@ (-7700004 :> "-77.00004")
    @@ (12241941 :> "122.41941")

\* each coordinate of the model with four decimals
FourDecimals ==
    (0 :> "0.0000") @@ (1230000 :> "12.3000") @@ (3812346 :> "38.1235")
    @@ (-4 :> "-0.0000") @@ (-7700004 :> "-77.0000")
    @@ (12241941 :> "122.4194")

---------------------------------------------------------------------------
\* C1: every invocation of get_alerts or get_forecast ends by returning a
\* string, whatever its fetches answer; no exception crosses the tool boundary.
C1_NoExceptionCrossesBoundary ==
    \A i \in Invocations :
        /\ pc[i] # "raised"
        /\ pc[i] = "returned" => result[i].t = "text"

\* the body is an object with no features, or with an empty list of them
ZeroFeatures(body) ==
    body.t = "obj" /\ (Has(body, "features") => body.v["features"] = EmptyArr)

\* C2: a successful alerts fetch whose body holds zero features (the list is
\* empty or absent) returns exactly "No active alerts for {CODE}", never the
\* fetch-failure message.
C2_ZeroFeaturesNoActiveAlerts ==
    \A i \in Invocations :
        (IsAlerts(i) /\ FetchOk(i, 1) /\ ZeroFeatures(resps[i][1].body))
        => /\ pc[i] = "returned"
           /\ result[i] = Line("No active alerts for " \o Uppercased[req[i].args[1]])

\* the six lines of the k-th block of an alerts result
AlertBlock(i, k) == SubSeq(result[i].v, 6 * k - 3, 6 * k + 2)

\* C3: a successful alerts fetch with a features list of N >= 1 records
\* returns the header naming the region, an empty line, then exactly N blocks
\* of six lines, the i-th being the formatting of the i-th feature and ending
\* with the line "---".
C3_BlocksInUpstreamOrder ==
    \A i \in Invocations :
        (IsAlerts(i) /\ FetchOk(i, 1) /\ FeatureList(resps[i][1].body))
        => LET features == resps[i][1].body.v["features"].v
           IN  /\ pc[i] = "returned"
               /\ Len(result[i].v) = 2 + 6 * Len(features)
               /\ result[i].v[1]
                    = "Active alerts for " \o Uppercased[req[i].args[1]] \o ":"
               /\ result[i].v[2] = ""
               /\ \A k \in 1 .. Len(features) :
                     /\ AlertBlock(i, k) = format_alert(features[k]).v
                     /\ AlertBlock(i, k)[6] = "---"

C3_Witness ==
    \E i \in Invocations :
        /\ IsAlerts(i) /\ FetchOk(i, 1) /\ FeatureList(resps[i][1].body)
        /\ pc[i] = "returned"
        /\ Len(resps[i][1].body.v["features"].v) = 2
        /\ resps[i][1].body.v["features"].v[1] # resps[i][1].body.v["features"].v[2]

\* the uppercased form of the code invocation i was called with
CodeOf(i) == Uppercased[req[i].args[1]]

\* C4: the region code in the query URL and the code echoed in the "Active
\* alerts for" header and the "No active alerts for" message are the same
\* uppercased form of the input, and two inputs that differ only in letter
\* case give the same query and, for the same response, the same output.
C4_UppercaseEverywhere ==
    /\ \A i \in Invocations :
          IsAlerts(i)
          => /\ fetched[i] = <<Str(NWS_API_BASE \o "/alerts?area=" \o CodeOf(i))>>
             /\ pc[i] = "returned"
                => \/ result[i] = Line("Failed to retrieve alerts data")
                   \/ result[i] = Line("No active alerts for " \o CodeOf(i))
                   \/ /\ Len(result[i].v) > 1
                      /\ result[i].v[1] = "Active alerts for " \o CodeOf(i) \o ":"
    /\ \A i, j \in Invocations :
          (IsAlerts(i) /\ IsAlerts(j) /\ CodeOf(i) = CodeOf(j))
          => /\ fetched[i] = fetched[j]
             /\ resps[i] = resps[j] => (pc[i] = pc[j] /\ result[i] = result[j])

C4_Witness ==
    \E i, j \in Invocations :
        /\ IsAlerts(i) /\ IsAlerts(j)
        /\ req[i].args = <<(<<"c", "a">>)>> /\ req[j].args = <<(<<"C", "A">>)>>
        /\ resps[i] = resps[j]
        /\ pc[i] = "returned" /\ pc[j] = "returned"
        /\ result[i].v[1] = "Active alerts for CA:"

\* A field k of rec as it is shown: its value, or the placeholder p.
Shown(rec, k, p) == IF k \in DOMAIN rec THEN py_str(rec[k]) ELSE p

AlertKey == <<"event", "areaDesc", "severity", "status", "headline">>
AlertLabel == <<"Event: ", "Area: ", "Severity: ", "Status: ", "Headline: ">>

AlertBlockFrom(block, feature, S) ==
    LET props == IF Has(feature, "properties") THEN feature.v["properties"].v
                 ELSE <<>>
    IN  /\ \A n \in 1 .. 5 :
              \E p \in S : block[n] = AlertLabel[n] \o Shown(props, AlertKey[n], p)
        /\ block[6] = "---"

PeriodBlockFrom(block, period, S) ==
    /\ \E p \in S : block[1] = Shown(period.v, "name", p) \o ":"
    /\ \E p, q \in S :
          block[2] = "Temperature: " \o Shown(period.v, "temperature", p)
                     \o "°" \o Shown(period.v, "temperatureUnit", q)
    /\ \E p, q \in S :
          block[3] = "Wind: " \o Shown(period.v, "windSpeed", p)
                     \o " " \o Shown(period.v, "windDirection", q)
    /\ \E p \in S : block[4] = Shown(period.v, "shortForecast", p)
    /\ block[5] = "---"

\* every field absent from an alert feature or a forecast period is rendered
\* as a placeholder of S, and formatting does not fail over a missing field
\* or a missing properties record
AbsentAs(S) ==
    \A i \in Invocations :
        /\ (IsAlerts(i) /\ FetchOk(i, 1) /\ FeatureList(resps[i][1].body))
           => /\ pc[i] = "returned"
              /\ \A k \in DOMAIN resps[i][1].body.v["features"].v :
                    AlertBlockFrom(SubSeq(result[i].v, 6 * k - 3, 6 * k + 2),
                                   resps[i][1].body.v["features"].v[k], S)
        /\ (IsForecast(i) /\ FetchOk(i, 2) /\ PeriodList(resps[i][2].body))
           => /\ pc[i] = "returned"
              /\ \A k \in DOMAIN resps[i][2].body.v["properties"].v["periods"].v :
                    PeriodBlockFrom(SubSeq(result[i].v, 5 * k - 2, 5 * k + 2),
                                    resps[i][2].body.v["properties"].v["periods"].v[k], S)

CoverageMessage(i) ==
    Line("Failed to retrieve grid point data for coordinates: "
         \o AsGiven[req[i].args[1]] \o ", " \o AsGiven[req[i].args[2]]
         \o ". This location may not be supported by the NWS API (only US locations are supported).")

\* C6: when the grid point fetch fails, get_forecast returns the coverage
\* message with latitude and longitude as the caller gave them (the URL holds
\* their four-decimal form), and it issues no second fetch.
C6_GridFailureEchoesInput ==
    \A i \in Invocations :
        (IsForecast(i) /\ FetchFailed(i, 1))
        => /\ pc[i] = "returned"
           /\ result[i] = CoverageMessage(i)
           /\ fetched[i] = <<Str(NWS_API_BASE \o "/points/"
                                 \o FourDecimals[req[i].args[1]] \o ","
                                 \o FourDecimals[req[i].args[2]])>>

C6_Witness ==
    \E i \in Invocations :
        /\ IsForecast(i) /\ FetchFailed(i, 1) /\ pc[i] = "returned"
        /\ req[i].args = <<3812346, -7700004>>
        /\ fetched[i][1].v = "https://api.weather.gov/points/38.1235,-77.0000"

\* a grid body without a forecast URL, a forecast body without periods
UrlAbsent(body) ==
    /\ body.t = "obj"
    /\ Has(body, "properties")
       => /\ body.v["properties"].t = "obj"
          /\ ~Has(body.v["properties"], "forecast")

NoPeriods(body) ==
    /\ body.t = "obj"
    /\ Has(body, "properties")
       => /\ body.v["properties"].t = "obj"
          /\ Has(body.v["properties"], "periods")
             => body.v["properties"].v["periods"] = EmptyArr

\* C7: after a successful grid fetch get_forecast is decided by the first
\* failing step: no forecast URL in the grid response gives exactly "Failed
\* to get forecast URL from grid point data" and no second fetch; a failed
\* second fetch gives exactly "Failed to retrieve forecast data"; a second
\* fetch with an empty or absent periods list gives exactly "No forecast
\* periods available"; the forecast is formatted only when no step failed.
C7_FirstFailingStepDecides ==
    \A i \in Invocations :
        (IsForecast(i) /\ FetchOk(i, 1))
        => /\ UrlAbsent(resps[i][1].body)
              => /\ pc[i] = "returned"
                 /\ result[i] = Line("Failed to get forecast URL from grid point data")
                 /\ Len(fetched[i]) = 1
           /\ FetchFailed(i, 2)
              => /\ pc[i] = "returned"
                 /\ result[i] = Line("Failed to retrieve forecast data")
           /\ (FetchOk(i, 2) /\ NoPeriods(resps[i][2].body))
              => /\ pc[i] = "returned"
                 /\ result[i] = Line("No forecast periods available")
           /\ (pc[i] = "returned" /\ Len(result[i].v) > 1)
              => /\ ~UrlAbsent(resps[i][1].body)
                 /\ FetchOk(i, 2)
                 /\ ~NoPeriods(resps[i][2].body)

\* i came in by a resource adapter, j by its tool, with the same input and
\* the same responses
Twin(i, j) ==
    /\ \/ req[i].entry = "alerts_resource" /\ req[j].entry = "get_alerts"
       \/ req[i].entry = "forecast_resource" /\ req[j].entry = "get_forecast"
    /\ req[i].args = req[j].args
    /\ resps[i] = resps[j]

\* C8: for the same input and the same responses a resource adapter comes to
\* the same fetches and the same outcome, string for string, as its tool.
C8_ResourceEqualsTool ==
    \A i, j \in Invocations :
        Twin(i, j)
        => /\ fetched[i] = fetched[j]
           /\ pc[i] = pc[j]
           /\ result[i] = result[j]

C8_Witness ==
    \E i, j \in Invocations :
        /\ Twin(i, j)
        /\ req[i].entry = "forecast_resource"
        /\ pc[i] = "returned"
        /\ Len(result[i].v) > 1

\* i and j run the same tool with the same arguments and got the same responses
SameRun(i, j) == frame[i] = frame[j] /\ resps[i] = resps[j]

\* C9: the fetches and the result of an invocation depend only on its own
\* arguments and the responses to its own fetches, whatever other invocations
\* did before or beside it: two invocations of one tool with the same
\* arguments and the same responses so far stand at the same point with the
\* same fetches and the same result.
C9_InvocationsIndependent ==
    \A i, j \in Invocations :
        (pc[i] # "idle" /\ pc[j] # "idle" /\ SameRun(i, j))
        => /\ fetched[i] = fetched[j]
           /\ pc[i] = pc[j]
           /\ result[i] = result[j]

C9_Witness ==
    \E i, j, k \in Invocations :
        /\ i # j /\ i # k /\ j # k
        /\ IsAlerts(i) /\ SameRun(i, j)
        /\ pc[i] = "returned" /\ Len(result[i].v) > 1
        /\ FetchFailed(k, 1)
        /\ diag > 0

\* C10: get_alerts issues exactly one fetch and get_forecast at most two; the
\* second goes out only once the first has come back with a forecast URL and
\* goes to exactly that URL; an invocation never has two fetches in flight,
\* and no fetch follows a failed one.
C10_FetchDiscipline ==
    \A i \in Invocations :
        /\ inflight[i] = Len(fetched[i]) - Len(resps[i])
        /\ inflight[i] = IF pc[i] \in {"await1", "await2"} THEN 1 ELSE 0
        /\ IsAlerts(i) => Len(fetched[i]) = 1
        /\ IsForecast(i) => Len(fetched[i]) \in {1, 2}
        /\ (IsForecast(i) /\ Len(fetched[i]) = 2)
           => /\ FetchOk(i, 1)
              /\ Has(resps[i][1].body, "properties")
              /\ Has(resps[i][1].body.v["properties"], "forecast")
              /\ fetched[i][2] = resps[i][1].body.v["properties"].v["forecast"]
        /\ \A k \in DOMAIN resps[i] : FetchFailed(i, k) => Len(fetched[i]) = k

C10_Witness ==
    \E i \in Invocations :
        /\ IsForecast(i) /\ pc[i] = "returned"
        /\ Len(fetched[i]) = 2 /\ fetched[i][2] = ForecastUrl2
        /\ FetchFailed(i, 2)

====
